---- MODULE Spec2Model ----
(***************************************************************************)
(* Model of the retrieval-augmented question-answering Lambdas:            *)
(*   src/src/python/doc_ingestor.py     (ingestion handler)                *)
(*   src/src/python/query_processor.py  (query handler)                    *)
(* Texts are sequences of one-character strings.                           *)
(***************************************************************************)
EXTENDS Integers, Sequences, FiniteSets, TLC

\* ------------------------------------------------------------------------
\* Bounds of the model
\* ------------------------------------------------------------------------
\* longest text handed to chunk_text in SpecChunk
MaxTextLen == 6
\* largest max_len handed to chunk_text in SpecChunk
MaxWidth == 4

\* characters of the modelled texts: a letter, a hyphen and two of the
\* whitespace characters of textwrap._whitespace
Alphabet == {"a", "-", " ", "\n"}
Whitespace == {" ", "\n"}

\* ------------------------------------------------------------------------
\* chunk_text = textwrap.wrap(text, max_len) with the TextWrapper defaults
\* (expand_tabs, replace_whitespace, drop_whitespace, break_long_words,
\*  break_on_hyphens all True; no indent; max_lines None), CPython 3.11
\* ------------------------------------------------------------------------
IsLetter(c) == c = "a"
\* a strip() that finds no chunk blank
IsSpace_never(s) == FALSE
IsSpace(s) == \A i \in 1..Len(s) : s[i] \in Whitespace
At(t, i) == IF i \in 1..Len(t) THEN t[i] ELSE "$"

\* TextWrapper._munge_whitespace: every whitespace character becomes a space
munge_whitespace(t) == [i \in 1..Len(t) |-> IF t[i] \in Whitespace THEN " " ELSE t[i]]

RECURSIVE SpaceRun(_, _)
SpaceRun(t, p) == IF At(t, p) \in Whitespace THEN 1 + SpaceRun(t, p + 1) ELSE 0

RECURSIVE HyphenRun(_, _)
HyphenRun(t, p) == IF At(t, p) = "-" THEN 1 + HyphenRun(t, p + 1) ELSE 0

\* wordsep_re, alternative "em-dash between words" matched at position p
EmDashAt(t, p) ==
    /\ IsLetter(At(t, p - 1))
    /\ HyphenRun(t, p) >= 2
    /\ IsLetter(At(t, p + HyphenRun(t, p)))

\* wordsep_re, "hyphenated word": a hyphen at q that a word may break after
HyphenBreakAt(t, q) ==
    /\ At(t, q) = "-"
    /\ \/ IsLetter(At(t, q - 2)) /\ IsLetter(At(t, q - 1))
       \/ IsLetter(At(t, q - 3)) /\ At(t, q - 2) = "-" /\ IsLetter(At(t, q - 1))
    /\ IsLetter(At(t, q + 1))
    /\ \/ IsLetter(At(t, q + 2))
       \/ At(t, q + 2) = "-" /\ IsLetter(At(t, q + 3))

\* wordsep_re, alternative "word, possibly hyphenated": the lazy [^ws]+? has
\* consumed n characters from p; the length of the match
RECURSIVE WordLen(_, _, _)
WordLen(t, p, n) ==
    IF HyphenBreakAt(t, p + n) THEN n + 1
    ELSE IF p + n > Len(t) \/ At(t, p + n) \in Whitespace THEN n
    ELSE IF EmDashAt(t, p + n) THEN n
    ELSE WordLen(t, p, n + 1)

\* length of the wordsep_re match that starts at position p
TokenLen(t, p) ==
    IF At(t, p) \in Whitespace THEN SpaceRun(t, p)
    ELSE IF EmDashAt(t, p) THEN HyphenRun(t, p)
    ELSE WordLen(t, p, 1)

\* TextWrapper._split: the text cut into whitespace runs and word pieces
RECURSIVE SplitFrom(_, _)
SplitFrom(t, p) ==
    IF p > Len(t) THEN << >>
    ELSE << SubSeq(t, p, p + TokenLen(t, p) - 1) >> \o SplitFrom(t, p + TokenLen(t, p))

split_chunks(t) == SplitFrom(munge_whitespace(t), 1)

RECURSIVE Flatten(_)
Flatten(ss) == IF ss = << >> THEN << >> ELSE Head(ss) \o Flatten(Tail(ss))

\* an inner loop that lets a line pass the width by one character
RECURSIVE FitCount_loose(_, _, _)
FitCount_loose(cs, cur_len, width) ==
    IF cs # << >> /\ cur_len + Len(Head(cs)) <= width + 1
    THEN 1 + FitCount_loose(Tail(cs), cur_len + Len(Head(cs)), width)
    ELSE 0

\* inner loop of _wrap_chunks: how many leading chunks fit on the line
RECURSIVE FitCount(_, _, _)
FitCount(cs, cur_len, width) ==
    IF cs # << >> /\ cur_len + Len(Head(cs)) <= width
    THEN 1 + FitCount(Tail(cs), cur_len + Len(Head(cs)), width)
    ELSE 0

\* chunk.rfind('-', 0, space_left), 0-based as in the source; -1 if none
RECURSIVE RFindHyphen(_, _)
RFindHyphen(chunk, i) ==
    IF i < 1 THEN 0 - 1
    ELSE IF At(chunk, i) = "-" THEN i - 1
    ELSE RFindHyphen(chunk, i - 1)

\* TextWrapper._handle_long_word: where the chunk that fits on no line is cut
LongWordEnd(chunk, space_left) ==
    LET hyphen == RFindHyphen(chunk, space_left)
    IN  IF /\ Len(chunk) > space_left
           /\ hyphen > 0
           /\ \E i \in 1..hyphen : chunk[i] # "-"
        THEN hyphen + 1
        ELSE space_left

\* TextWrapper._wrap_chunks: one iteration of the outer loop per call
RECURSIVE wrap_chunks(_, _, _)
wrap_chunks(chunks, lines, width) ==
    IF chunks = << >> THEN lines
    ELSE
      LET cs0   == IF IsSpace(Head(chunks)) /\ lines # << >> THEN Tail(chunks) ELSE chunks
          k     == FitCount(cs0, 0, width)
          line1 == SubSeq(cs0, 1, k)
          len1  == Len(Flatten(line1))
          rest1 == SubSeq(cs0, k + 1, Len(cs0))
          long  == rest1 # << >> /\ Len(Head(rest1)) > width
          end   == IF long THEN LongWordEnd(Head(rest1), width - len1) ELSE 0
          line2 == IF long THEN Append(line1, SubSeq(Head(rest1), 1, end)) ELSE line1
          rest2 == IF long
                   THEN << SubSeq(Head(rest1), end + 1, Len(Head(rest1))) >> \o Tail(rest1)
                   ELSE rest1
          line3 == IF line2 # << >> /\ IsSpace(line2[Len(line2)])
                   THEN SubSeq(line2, 1, Len(line2) - 1)
                   ELSE line2
      IN  wrap_chunks(rest2, IF line3 # << >> THEN Append(lines, Flatten(line3)) ELSE lines, width)

chunk_text(t, width) == wrap_chunks(split_chunks(t), << >>, width)


\* ------------------------------------------------------------------------
\* Bounds and environment of the handlers
\* ------------------------------------------------------------------------
\* Lambda invocations that overlap in SpecRace
NumSlots == 2
\* invocations that follow one another in Spec
MaxInvocations == 2
\* remote calls that may answer with something other than the nominal success
MaxFaults == 1
\* records in one ingestion event
MaxRecords == 2
\* max_len of chunk_text as the ingestion handler calls it; the source's
\* default is 1200 characters, scaled down so that the small documents of
\* the object store split into several chunks
DefaultMaxLen == 3
\* k of search(qvec, k=5)
SearchK == 5
\* cap on the question length
QuestionCap == 4000

Slots == 1..NumSlots
Keys == {"a.txt", "c.txt"}

Chars(str) == CASE str = "aaa aa" -> <<"a", "a", "a", " ", "a", "a">>
                [] str = "ws"     -> <<" ", "\n">>

\* the object store read by s3.get_object: a document of several chunks and
\* a document of whitespace only
Store == [k \in Keys |-> CASE k = "a.txt" -> Chars("aaa aa")
                           [] k = "c.txt" -> Chars("ws")]

\* hashlib.md5(key.encode()).hexdigest()
md5 == [k \in Keys |-> CASE k = "a.txt" -> "a5e54d1fd7bb69a228ef0dcd2431367e"
                         [] k = "c.txt" -> "d394994e9541622e8018542d886abaa8"]

\* the vector the embedding model computes for a text
ModelVector(t) == << Len(t) >>

VARIABLES
    in_text,      \* SpecChunk: the text handed to chunk_text
    in_max_len,   \* SpecChunk: the max_len handed to chunk_text
    out_chunks,   \* SpecChunk: the chunks returned
    called,       \* SpecChunk: chunk_text has returned
    in_embed,         \* SpecEmbed: the answer of bedrock.invoke_model to an embedding request
    out_embed_ingest, \* SpecEmbed: outcome of doc_ingestor.embed on it
    out_embed_query,  \* SpecEmbed: outcome of query_processor.embed on it
    in_model_id,      \* SpecAnswer: the configured model_id_to_use
    in_gen,           \* SpecAnswer: the answer of bedrock.invoke_model to a generation request
    out_answer,       \* SpecAnswer: outcome of answer_with_context on it
    idxExists,    \* OpenSearch: the index exists
    index,        \* OpenSearch: the entries of the index, by auto-generated _id
    faults,       \* non-nominal answers of remote services so far
    preloaded,    \* OpenSearch: the index held entries of earlier ingestions at first
    started,      \* invocations started so far
    acked,        \* history: the index requests OpenSearch has acknowledged
    kind,         \* per slot: "idle", "ingest" or "query"
    pc,           \* per slot: position of the handler
    event,        \* per slot: the Lambda event
    loc,          \* per slot: the handler's local variables
    calls,        \* per slot: remote calls and logger.error calls of the invocation
    result        \* per slot: how the handler ended

chunkVars == << in_text, in_max_len, out_chunks, called >>
parseVars == << in_embed, out_embed_ingest, out_embed_query,
               in_model_id, in_gen, out_answer >>
pureVars == << chunkVars, parseVars >>
histVars == << acked >>
sysVars == << idxExists, index, faults, preloaded, started, acked,
             kind, pc, event, loc, calls, result >>
vars == << in_text, in_max_len, out_chunks, called,
           in_embed, out_embed_ingest, out_embed_query,
           in_model_id, in_gen, out_answer,
           idxExists, index, faults, preloaded, started, acked,
           kind, pc, event, loc, calls, result >>

NoLoc == [rec_idx |-> 0, key |-> "", chunks |-> << >>, i |-> 0, vec |-> << >>,
          question |-> << >>, contexts |-> << >>]
NoResult == [status |-> "none", value |-> "none", debug |-> ""]
NoEvent == [Records |-> << >>, method |-> "", body |-> "none"]
\* an outcome not computed yet, and a remote answer not received yet
NotCalled == [ok |-> FALSE, value |-> "not called"]
NoAnswer == [raises |-> TRUE, payload |-> [message |-> "none"]]
IsCalled(r) == r.ok \/ r.value # "not called"
ParseIdle ==
    /\ in_embed = NoAnswer /\ out_embed_ingest = NotCalled /\ out_embed_query = NotCalled
    /\ in_model_id = "" /\ in_gen = NoAnswer /\ out_answer = NotCalled

Call(s, op, ok, arg) == Append(calls[s], [op |-> op, ok |-> ok, arg |-> arg])
LogError(log, msg) == Append(log, [op |-> "logger.error", ok |-> TRUE, arg |-> msg])

\* index_chunk numbering the chunks from 1
ChunkBody_shifted(doc_id, chunk_id, chunk_text_value, vec, meta) ==
    [doc_id |-> doc_id, chunk_id |-> chunk_id + 1, chunk_text |-> chunk_text_value,
     embedding |-> vec, source |-> meta.source, s3_key |-> meta.s3_key]

\* body of the index write of index_chunk: doc_id, chunk_id, chunk_text,
\* embedding and **meta
ChunkBody(doc_id, chunk_id, chunk_text_value, vec, meta) ==
    [doc_id |-> doc_id, chunk_id |-> chunk_id, chunk_text |-> chunk_text_value,
     embedding |-> vec, source |-> meta.source, s3_key |-> meta.s3_key]

Meta(key) == [source |-> "s3", s3_key |-> key]

\* entries an earlier, complete ingestion of key left in the index
RECURSIVE EntriesFrom(_, _, _)
EntriesFrom(key, cs, i) ==
    IF i >= Len(cs) THEN << >>
    ELSE << ChunkBody(md5[key], i, cs[i + 1], ModelVector(cs[i + 1]), Meta(key)) >>
         \o EntriesFrom(key, cs, i + 1)
EntriesOf(key) == EntriesFrom(key, chunk_text(Store[key], DefaultMaxLen), 0)
Preloaded == EntriesOf("a.txt") \o EntriesOf("a.txt") \o EntriesOf("a.txt")

\* ------------------------------------------------------------------------
\* ensure_index_exists (the same code in both Lambdas)
\* ------------------------------------------------------------------------
AfterEnsure(s) == IF kind[s] = "ingest" THEN "records" ELSE "method"

\* os_client.indices.exists: answers, or raises; the except clause logs
ensure_index_exists_check(s) ==
    /\ pc[s] = "ensure_exists"
    /\ \E raises \in BOOLEAN :
         /\ raises => faults < MaxFaults
         /\ faults' = IF raises THEN faults + 1 ELSE faults
         /\ calls' = [calls EXCEPT ![s] =
                IF raises
                THEN LogError(Call(s, "indices.exists", FALSE, "raised"),
                              "Error ensuring index exists")
                ELSE Call(s, "indices.exists", TRUE, idxExists)]
         /\ pc' = [pc EXCEPT ![s] =
                IF raises \/ idxExists THEN AfterEnsure(s) ELSE "ensure_create"]
    /\ UNCHANGED << idxExists, index, preloaded, started, kind, event, loc, result >>
    /\ UNCHANGED histVars
    /\ UNCHANGED pureVars

\* an ensure_index_exists that lets the failure of create leave the handler
ensure_index_exists_create_raising(s) ==
    /\ pc[s] = "ensure_create"
    /\ \E fails \in BOOLEAN :
         /\ idxExists => fails
         /\ (fails /\ ~idxExists) => faults < MaxFaults
         /\ faults' = IF fails /\ ~idxExists THEN faults + 1 ELSE faults
         /\ idxExists' = (idxExists \/ ~fails)
         /\ calls' = [calls EXCEPT ![s] =
                Call(s, "indices.create", ~fails, IF fails THEN "raised" ELSE "created")]
         /\ pc' = [pc EXCEPT ![s] = IF fails THEN "done" ELSE AfterEnsure(s)]
         /\ result' = [result EXCEPT ![s] =
                IF fails THEN [status |-> "raised", value |-> "RequestError", debug |-> ""]
                ELSE @]
    /\ UNCHANGED << index, preloaded, started, kind, event, loc >>
    /\ UNCHANGED histVars
    /\ UNCHANGED pureVars

\* os_client.indices.create: fails when the index exists by now or the
\* service fails; the except clause logs and the handler goes on
ensure_index_exists_create(s) ==
    /\ pc[s] = "ensure_create"
    /\ \E fails \in BOOLEAN :
         /\ idxExists => fails
         /\ (fails /\ ~idxExists) => faults < MaxFaults
         /\ faults' = IF fails /\ ~idxExists THEN faults + 1 ELSE faults
         /\ idxExists' = (idxExists \/ ~fails)
         /\ calls' = [calls EXCEPT ![s] =
                IF fails
                THEN LogError(Call(s, "indices.create", FALSE, "raised"),
                              "Error ensuring index exists")
                ELSE Call(s, "indices.create", TRUE, "created")]
    /\ pc' = [pc EXCEPT ![s] = AfterEnsure(s)]
    /\ UNCHANGED << index, preloaded, started, kind, event, loc, result >>
    /\ UNCHANGED histVars
    /\ UNCHANGED pureVars

\* ------------------------------------------------------------------------
\* doc_ingestor.handler
\* ------------------------------------------------------------------------
RecordSeqs == UNION { [1..n -> Keys] : n \in 0..MaxRecords }

doc_ingestor_start(s, events) ==
    /\ kind[s] = "idle" \/ pc[s] = "done"
    /\ \E recs \in events :
         event' = [event EXCEPT ![s] = [NoEvent EXCEPT !.Records = recs]]
    /\ kind' = [kind EXCEPT ![s] = "ingest"]
    /\ pc' = [pc EXCEPT ![s] = "ensure_exists"]
    /\ loc' = [loc EXCEPT ![s] = [NoLoc EXCEPT !.rec_idx = 1]]
    /\ calls' = [calls EXCEPT ![s] = << >>]
    /\ result' = [result EXCEPT ![s] = NoResult]
    /\ started' = started + 1
    /\ UNCHANGED << idxExists, index, faults, preloaded >>
    /\ UNCHANGED histVars
    /\ UNCHANGED pureVars

\* a handler that catches the failure of a document and goes on with the batch
Raise_swallowed(s, exc) ==
    /\ pc' = [pc EXCEPT ![s] = "records"]
    /\ UNCHANGED result

\* the exception leaves the handler: there is no except clause, only finally
Raise(s, exc) ==
    /\ pc' = [pc EXCEPT ![s] = "done"]
    /\ result' = [result EXCEPT ![s] = [status |-> "raised", value |-> exc, debug |-> ""]]

\* head of the record loop: s3.get_object, decode, doc_id, meta, chunk_text
doc_ingestor_get_object(s) ==
    /\ kind[s] = "ingest" /\ pc[s] = "records"
    /\ loc[s].rec_idx <= Len(event[s].Records)
    /\ LET key == event[s].Records[loc[s].rec_idx]
       IN \E fails \in BOOLEAN :
            /\ fails => faults < MaxFaults
            /\ faults' = IF fails THEN faults + 1 ELSE faults
            /\ calls' = [calls EXCEPT ![s] = Call(s, "s3.get_object", ~fails, key)]
            /\ IF fails
               THEN /\ Raise(s, "ClientError")
                    /\ UNCHANGED loc
               ELSE LET chunks == chunk_text(Store[key], DefaultMaxLen)
                    IN /\ loc' = [loc EXCEPT ![s] =
                              IF chunks = << >>
                              THEN [@ EXCEPT !.rec_idx = @ + 1, !.key = key,
                                             !.chunks = chunks, !.i = 0]
                              ELSE [@ EXCEPT !.key = key, !.chunks = chunks, !.i = 0]]
                       /\ pc' = [pc EXCEPT ![s] =
                              IF chunks = << >> THEN "records" ELSE "embed"]
                       /\ UNCHANGED result
    /\ UNCHANGED << idxExists, index, preloaded, started, acked, kind, event >>
    /\ UNCHANGED pureVars

\* all records processed: return {"ok": True}
doc_ingestor_return(s) ==
    /\ kind[s] = "ingest" /\ pc[s] = "records"
    /\ loc[s].rec_idx > Len(event[s].Records)
    /\ pc' = [pc EXCEPT ![s] = "done"]
    /\ result' = [result EXCEPT ![s] = [status |-> "returned", value |-> "ok", debug |-> ""]]
    /\ UNCHANGED << idxExists, index, faults, preloaded, started, kind, event, loc, calls >>
    /\ UNCHANGED histVars
    /\ UNCHANGED pureVars


\* answers of bedrock.invoke_model to an embedding request: the call raises,
\* or the body parses to one of these payloads
EmbedPayloads(t) ==
    { [embedding |-> ModelVector(t)],
      [outputs |-> << [embedding |-> ModelVector(t)] >>],
      [message |-> "no embedding"] }
EmbedNominal(t) == [raises |-> FALSE, payload |-> [embedding |-> ModelVector(t)]]
EmbedResponses(t) ==
    { [raises |-> FALSE, payload |-> p] : p \in EmbedPayloads(t) }
    \cup { [raises |-> TRUE, payload |-> [message |-> "ClientError"]] }

\* doc_ingestor.embed: the direct field first, then the first item of
\* "outputs" that carries an embedding, else RuntimeError
doc_ingestor_embed(resp) ==
    IF resp.raises THEN [ok |-> FALSE, value |-> "ClientError"]
    ELSE IF "embedding" \in DOMAIN resp.payload
    THEN [ok |-> TRUE, value |-> resp.payload.embedding]
    ELSE IF "outputs" \in DOMAIN resp.payload
            /\ \E j \in 1..Len(resp.payload.outputs) :
                  "embedding" \in DOMAIN resp.payload.outputs[j]
    THEN LET outs == resp.payload.outputs
             j == CHOOSE j \in 1..Len(outs) :
                    /\ "embedding" \in DOMAIN outs[j]
                    /\ \A m \in 1..(j - 1) : "embedding" \notin DOMAIN outs[m]
         IN [ok |-> TRUE, value |-> outs[j].embedding]
    ELSE [ok |-> FALSE, value |-> "RuntimeError"]

\* chunk loop of the handler: vec = embed(chunk_text_value)
doc_ingestor_embed_chunk(s) ==
    /\ kind[s] = "ingest" /\ pc[s] = "embed"
    /\ LET t == loc[s].chunks[loc[s].i + 1]
       IN \E resp \in EmbedResponses(t) :
            LET r == doc_ingestor_embed(resp)
            IN /\ resp # EmbedNominal(t) => faults < MaxFaults
               /\ faults' = IF resp # EmbedNominal(t) THEN faults + 1 ELSE faults
               /\ IF r.ok
                  THEN /\ calls' = [calls EXCEPT ![s] = Call(s, "embed", TRUE, t)]
                       /\ loc' = [loc EXCEPT ![s].vec = r.value]
                       /\ pc' = [pc EXCEPT ![s] = "index_chunk"]
                       /\ UNCHANGED result
                  ELSE /\ calls' = [calls EXCEPT ![s] =
                              LogError(Call(s, "embed", FALSE, t), "Embed failed")]
                       /\ Raise(s, r.value)
                       /\ UNCHANGED loc
    /\ UNCHANGED << idxExists, index, preloaded, started, kind, event >>
    /\ UNCHANGED histVars
    /\ UNCHANGED pureVars

\* an index write keyed by (doc_id, chunk_id)
IndexRequest_keyed(body) == [body |-> body, id |-> << body.doc_id, body.chunk_id >>]

\* the request of os_client.index(index=OPENSEARCH_INDEX, body=body): no id
IndexRequest(body) == [body |-> body, id |-> << >>]

\* the index API of OpenSearch: a request without id adds an entry under a
\* fresh _id, a request with an id replaces the entry of that _id
NewId(idx, req) == IF req.id = << >> THEN << "auto", Len(idx) + 1 >> ELSE req.id
OpenSearchIndex(idx, req) ==
    IF req.id = << >>
    THEN Append(idx, [_id |-> NewId(idx, req), _source |-> req.body])
    ELSE IF \E n \in 1..Len(idx) : idx[n]._id = req.id
    THEN [n \in 1..Len(idx) |->
            IF idx[n]._id = req.id THEN [_id |-> req.id, _source |-> req.body] ELSE idx[n]]
    ELSE Append(idx, [_id |-> req.id, _source |-> req.body])

\* index_chunk(doc_id, i, chunk_text_value, vec, meta), then the loop goes on.
\* A write to an absent index either creates it or fails.
doc_ingestor_index_chunk(s) ==
    /\ kind[s] = "ingest" /\ pc[s] = "index_chunk"
    /\ LET key == loc[s].key
           i == loc[s].i
           req == IndexRequest(ChunkBody(md5[key], i, loc[s].chunks[i + 1],
                                         loc[s].vec, Meta(key)))
       IN \E fails \in BOOLEAN :
            /\ (fails /\ idxExists) => faults < MaxFaults
            /\ faults' = IF fails /\ idxExists THEN faults + 1 ELSE faults
            /\ calls' = [calls EXCEPT ![s] =
                   Call(s, "index", ~fails,
                        [body |-> req.body, id |-> req.id,
                         _id |-> IF fails THEN << >> ELSE NewId(index, req)])]
            /\ IF fails
               THEN /\ Raise(s, "TransportError")
                    /\ UNCHANGED << loc, index, idxExists, acked >>
               ELSE /\ index' = OpenSearchIndex(index, req)
                    /\ idxExists' = TRUE
                    /\ acked' = Append(acked, req)
                    /\ loc' = [loc EXCEPT ![s] =
                           IF i + 1 >= Len(@.chunks)
                           THEN [@ EXCEPT !.rec_idx = @ + 1, !.i = i + 1]
                           ELSE [@ EXCEPT !.i = i + 1]]
                    /\ pc' = [pc EXCEPT ![s] =
                           IF i + 1 >= Len(loc[s].chunks) THEN "records" ELSE "embed"]
                    /\ UNCHANGED result
    /\ UNCHANGED << preloaded, started, kind, event >>
    /\ UNCHANGED pureVars


\* ------------------------------------------------------------------------
\* query_processor.handler
\* ------------------------------------------------------------------------
CORS_HEADERS == {"Access-Control-Allow-Origin", "Access-Control-Allow-Headers",
                 "Access-Control-Allow-Methods"}

\* json.dumps of a response body
json_dumps(obj) == [json |-> obj]

\* _response(status, body_obj)
response(status, body_obj) ==
    [statusCode |-> status,
     headers |-> {"Content-Type"} \cup CORS_HEADERS,
     body |-> json_dumps(body_obj)]

\* HTTP methods of the events; "" stands for an event without the field
Methods == {"OPTIONS", "options", "POST", ""}
\* a method compared as sent
upper_none(m) == m
upper(m) == IF m = "options" THEN "OPTIONS" ELSE m

\* values of the "question" field
QuestionTexts == { << >>, << " " >>, << "a" >>, << " ", "a", "\n" >> }
QuestionValues ==
    { [t |-> "absent", v |-> << >>], [t |-> "null", v |-> << >>] }
    \cup { [t |-> "str", v |-> q] : q \in QuestionTexts }

\* event bodies: no body, the empty string, text that is not JSON, a JSON
\* array, a JSON object with or without "question"
Bodies ==
    { [tag |-> g, question |-> [t |-> "absent", v |-> << >>]] :
        g \in {"none", "empty", "invalid", "array"} }
    \cup { [tag |-> "object", question |-> qv] : qv \in QuestionValues }

\* json.loads(event.get("body") or "{}")
json_loads(body) ==
    CASE body.tag \in {"none", "empty"} ->
            [ok |-> TRUE, type |-> "dict", question |-> [t |-> "absent", v |-> << >>]]
      [] body.tag = "invalid" ->
            [ok |-> FALSE, type |-> "JSONDecodeError", question |-> body.question]
      [] body.tag = "array" ->
            [ok |-> TRUE, type |-> "list", question |-> body.question]
      [] body.tag = "object" ->
            [ok |-> TRUE, type |-> "dict", question |-> body.question]

\* str.strip()
RECURSIVE lstrip(_)
lstrip(q) == IF q # << >> /\ Head(q) \in Whitespace THEN lstrip(Tail(q)) ELSE q
RECURSIVE rstrip(_)
rstrip(q) == IF q # << >> /\ q[Len(q)] \in Whitespace
             THEN rstrip(SubSeq(q, 1, Len(q) - 1)) ELSE q
\* a question taken as sent
strip_none(q) == q
strip(q) == rstrip(lstrip(q))

\* body.get("question", "").strip(), then the cap on the length
parse_question(body) ==
    LET parsed == json_loads(body)
    IN  IF ~parsed.ok THEN [ok |-> FALSE, exc |-> parsed.type, question |-> << >>]
        ELSE IF parsed.type # "dict"
        THEN [ok |-> FALSE, exc |-> "AttributeError", question |-> << >>]
        ELSE IF parsed.question.t = "null"
        THEN [ok |-> FALSE, exc |-> "AttributeError", question |-> << >>]
        ELSE LET q == IF parsed.question.t = "absent" THEN << >>
                      ELSE strip(parsed.question.v)
             IN [ok |-> TRUE, exc |-> "",
                 question |-> IF Len(q) > QuestionCap THEN SubSeq(q, 1, QuestionCap) ELSE q]

\* values of the environment variable DEBUG_PUBLIC_ERRORS
DebugValues == {"false", "TRUE"}
lower(v) == IF v = "TRUE" THEN "true" ELSE v
DebugEnabled(v) == lower(v) \in {"1", "true", "yes"}

\* an except clause that adds the error type and message whatever the flag
QueryFail_leaky(s, exc, log) ==
    /\ calls' = [calls EXCEPT ![s] = LogError(log, "Unhandled error")]
    /\ pc' = [pc EXCEPT ![s] = "done"]
    /\ \E d \in DebugValues :
         result' = [result EXCEPT ![s] =
            [status |-> "returned",
             value |-> response(500, [error |-> "internal_error",
                                      error_type |-> exc, message |-> exc]),
             debug |-> d]]

\* the except clause of the handler: log, then the 500 response
QueryFail(s, exc, log) ==
    /\ calls' = [calls EXCEPT ![s] = LogError(log, "Unhandled error")]
    /\ pc' = [pc EXCEPT ![s] = "done"]
    /\ \E d \in DebugValues :
         result' = [result EXCEPT ![s] =
            [status |-> "returned",
             value |-> IF DebugEnabled(d)
                       THEN response(500, [error |-> "internal_error",
                                           error_type |-> exc, message |-> exc])
                       ELSE response(500, [error |-> "internal_error"]),
             debug |-> d]]

QueryReturn(s, resp) ==
    /\ pc' = [pc EXCEPT ![s] = "done"]
    /\ result' = [result EXCEPT ![s] =
            [status |-> "returned", value |-> resp, debug |-> ""]]

query_processor_start(s, events) ==
    /\ kind[s] = "idle" \/ pc[s] = "done"
    /\ \E e \in events :
         event' = [event EXCEPT ![s] = [NoEvent EXCEPT !.method = e.method, !.body = e.body]]
    /\ kind' = [kind EXCEPT ![s] = "query"]
    /\ pc' = [pc EXCEPT ![s] = "ensure_exists"]
    /\ loc' = [loc EXCEPT ![s] = NoLoc]
    /\ calls' = [calls EXCEPT ![s] = << >>]
    /\ result' = [result EXCEPT ![s] = NoResult]
    /\ started' = started + 1
    /\ UNCHANGED << idxExists, index, faults, preloaded >>
    /\ UNCHANGED histVars
    /\ UNCHANGED pureVars

\* the CORS preflight, the body and the validation of the question
query_processor_parse(s) ==
    /\ kind[s] = "query" /\ pc[s] = "method"
    /\ LET parsed == parse_question(event[s].body)
       IN IF upper(event[s].method) = "OPTIONS"
          THEN /\ QueryReturn(s, [statusCode |-> 204, headers |-> CORS_HEADERS,
                                  body |-> ""])
               /\ UNCHANGED << calls, loc >>
          ELSE IF ~parsed.ok
          THEN /\ QueryFail(s, parsed.exc, calls[s])
               /\ UNCHANGED loc
          ELSE IF parsed.question = << >>
          THEN /\ QueryReturn(s, response(400, [error |-> "question required"]))
               /\ calls' = [calls EXCEPT ![s] = LogError(calls[s], "Validation failed")]
               /\ UNCHANGED loc
          ELSE /\ loc' = [loc EXCEPT ![s].question = parsed.question]
               /\ pc' = [pc EXCEPT ![s] = "embed"]
               /\ UNCHANGED << calls, result >>
    /\ UNCHANGED << idxExists, index, faults, preloaded, started, kind, event >>
    /\ UNCHANGED histVars
    /\ UNCHANGED pureVars

\* query_processor.embed: payload["embedding"]
query_processor_embed(resp) ==
    IF resp.raises THEN [ok |-> FALSE, value |-> "ClientError"]
    ELSE IF "embedding" \in DOMAIN resp.payload
    THEN [ok |-> TRUE, value |-> resp.payload.embedding]
    ELSE [ok |-> FALSE, value |-> "KeyError"]

\* qvec = embed(question)
query_processor_embed_question(s) ==
    /\ kind[s] = "query" /\ pc[s] = "embed"
    /\ LET t == loc[s].question
       IN \E resp \in EmbedResponses(t) :
            LET r == query_processor_embed(resp)
            IN /\ resp # EmbedNominal(t) => faults < MaxFaults
               /\ faults' = IF resp # EmbedNominal(t) THEN faults + 1 ELSE faults
               /\ IF r.ok
                  THEN /\ calls' = [calls EXCEPT ![s] = Call(s, "embed", TRUE, t)]
                       /\ loc' = [loc EXCEPT ![s].vec = r.value]
                       /\ pc' = [pc EXCEPT ![s] = "search"]
                       /\ UNCHANGED result
                  ELSE /\ QueryFail(s, r.value,
                             LogError(Call(s, "embed", FALSE, t), "Embedding failed"))
                       /\ UNCHANGED loc
    /\ UNCHANGED << idxExists, index, preloaded, started, kind, event >>
    /\ UNCHANGED histVars
    /\ UNCHANGED pureVars


Min(a, b) == IF a < b THEN a ELSE b

\* answers of os_client.search(body={"size": k, "query": knn}): the n best
\* entries by score, best first, n <= size; the score ranks the entries by
\* age, oldest or newest first
SearchHits(idx, size) ==
    { [j \in 1..n |-> [_id |-> idx[IF oldest THEN j ELSE Len(idx) + 1 - j]._id,
                       _source |-> idx[IF oldest THEN j ELSE Len(idx) + 1 - j]._source,
                       _score |-> 100 - j]] :
        n \in 0..Min(size, Len(idx)), oldest \in BOOLEAN }

\* snippets in the reverse order of the hits
search_reversed(hits) ==
    [j \in 1..Len(hits) |->
        [text |-> hits[Len(hits) + 1 - j]._source.chunk_text,
         source |-> hits[Len(hits) + 1 - j]._source.s3_key,
         score |-> hits[Len(hits) + 1 - j]._score]]

\* search(vec, k): one snippet per hit, in the order of the hits
search(hits) ==
    [j \in 1..Len(hits) |->
        [text |-> hits[j]._source.chunk_text,
         source |-> IF hits[j]._source.s3_key # "" THEN hits[j]._source.s3_key
                    ELSE hits[j]._source.source,
         score |-> hits[j]._score]]

\* contexts = search(qvec, k=5); a search in an absent index fails
query_processor_search(s) ==
    /\ kind[s] = "query" /\ pc[s] = "search"
    /\ \/ /\ idxExists => faults < MaxFaults
          /\ faults' = IF idxExists THEN faults + 1 ELSE faults
          /\ QueryFail(s, "TransportError", Call(s, "search", FALSE, SearchK))
          /\ UNCHANGED loc
       \/ /\ idxExists
          /\ \E hits \in SearchHits(index, SearchK) :
               /\ loc' = [loc EXCEPT ![s].contexts = search(hits)]
               /\ calls' = [calls EXCEPT ![s] = Call(s, "search", TRUE, hits)]
          /\ pc' = [pc EXCEPT ![s] = "answer"]
          /\ UNCHANGED << faults, result >>
    /\ UNCHANGED << idxExists, index, preloaded, started, kind, event >>
    /\ UNCHANGED histVars
    /\ UNCHANGED pureVars

\* configuration of the generative model (the defaults of the module)
GEN_MODEL_ID == "anthropic.claude-3-5-sonnet-20241022-v2:0"
GEN_INFERENCE_PROFILE_ID == ""
model_id_to_use == IF GEN_INFERENCE_PROFILE_ID # "" THEN GEN_INFERENCE_PROFILE_ID
                   ELSE GEN_MODEL_ID
\* "anthropic" in model_id.lower()
IsAnthropic(id) == id = "anthropic.claude-3-5-sonnet-20241022-v2:0"

\* answers of bedrock.invoke_model to a generation request
GenPayloads ==
    { [content |-> << [type |-> "text", text |-> "answer [Snippet 1]"] >>],
      [content |-> << >>],
      [content |-> << [type |-> "tool_use"], [type |-> "text", text |-> "answer"] >>],
      [content |-> << [type |-> "text", text |-> ""] >>],
      [output |-> << [content |-> << [text |-> "answer"] >>] >>] }
GenNominal == [raises |-> FALSE,
               payload |-> [content |-> << [type |-> "text", text |-> "answer [Snippet 1]"] >>]]
GenResponses ==
    { [raises |-> FALSE, payload |-> p] : p \in GenPayloads }
    \cup { [raises |-> TRUE, payload |-> [message |-> "ClientError"]] }

\* answer_with_context: the text of the response, by model family
answer_with_context_of(model_id, resp) ==
    IF resp.raises THEN [ok |-> FALSE, value |-> "ClientError"]
    ELSE IF IsAnthropic(model_id)
    THEN LET content == IF "content" \in DOMAIN resp.payload
                        THEN resp.payload.content ELSE << >>
         IN IF content # << >> /\ "text" \in DOMAIN content[1]
            THEN [ok |-> TRUE, value |-> content[1].text]
            ELSE [ok |-> FALSE, value |-> "ValueError"]
    ELSE LET output == IF "output" \in DOMAIN resp.payload
                       THEN resp.payload.output ELSE << >>
         IN IF /\ output # << >>
               /\ "content" \in DOMAIN output[1]
               /\ output[1].content # << >>
               /\ "text" \in DOMAIN output[1].content[1]
            THEN [ok |-> TRUE, value |-> output[1].content[1].text]
            ELSE [ok |-> FALSE, value |-> "ValueError"]

\* answer_with_context under the configuration of the module
answer_with_context(resp) == answer_with_context_of(model_id_to_use, resp)

\* "sources" of the 200 response
Sources(contexts) ==
    [j \in 1..Len(contexts) |->
        [snippet_index |-> j, text |-> contexts[j].text,
         source |-> contexts[j].source, score |-> contexts[j].score]]

\* answer = answer_with_context(question, contexts), then the 200 response
query_processor_answer(s) ==
    /\ kind[s] = "query" /\ pc[s] = "answer"
    /\ \E resp \in GenResponses :
         LET r == answer_with_context(resp)
         IN /\ resp # GenNominal => faults < MaxFaults
            /\ faults' = IF resp # GenNominal THEN faults + 1 ELSE faults
            /\ IF r.ok
               THEN /\ calls' = [calls EXCEPT ![s] =
                           Call(s, "generate", TRUE, loc[s].contexts)]
                    /\ QueryReturn(s, response(200,
                           [answer |-> r.value, sources |-> Sources(loc[s].contexts)]))
               ELSE QueryFail(s, r.value,
                       LogError(Call(s, "generate", FALSE, loc[s].contexts),
                                "Answer generation failed"))
    /\ UNCHANGED << idxExists, index, preloaded, started, kind, event, loc >>
    /\ UNCHANGED histVars
    /\ UNCHANGED pureVars

\* ------------------------------------------------------------------------
\* Specification of the two Lambdas over one index
\* ------------------------------------------------------------------------
IndexOf(entries) ==
    [n \in 1..Len(entries) |-> [_id |-> << "auto", n >>, _source |-> entries[n]]]

\* events of the query Lambda: preflights, and requests with every body
QueryEvents ==
    { [method |-> m, body |-> b] : m \in {"POST"}, b \in Bodies }
    \cup { [method |-> m, body |-> [tag |-> "none", question |-> [t |-> "absent", v |-> << >>]]] :
             m \in Methods }
    \cup { [method |-> "OPTIONS",
            body |-> [tag |-> "object", question |-> [t |-> "str", v |-> << "a" >>]]] }

InitSys ==
    /\ preloaded \in BOOLEAN
    /\ idxExists = preloaded
    /\ index = IF preloaded THEN IndexOf(Preloaded) ELSE << >>
    /\ faults = 0
    /\ started = 0
    /\ acked = << >>
    /\ kind = [s \in Slots |-> "idle"]
    /\ pc = [s \in Slots |-> "idle"]
    /\ event = [s \in Slots |-> NoEvent]
    /\ loc = [s \in Slots |-> NoLoc]
    /\ calls = [s \in Slots |-> << >>]
    /\ result = [s \in Slots |-> NoResult]

Init ==
    /\ in_text = << >> /\ in_max_len = 1 /\ out_chunks = << >> /\ called = FALSE
    /\ ParseIdle
    /\ InitSys

\* Spec: invocations follow one another, each with any event
IngestInvoke == started < MaxInvocations /\ doc_ingestor_start(1, RecordSeqs)
QueryInvoke == started < MaxInvocations /\ query_processor_start(1, QueryEvents)

Next ==
    \/ IngestInvoke
    \/ QueryInvoke
    \/ ensure_index_exists_check(1)
    \/ ensure_index_exists_create(1)
    \/ doc_ingestor_get_object(1)
    \/ doc_ingestor_embed_chunk(1)
    \/ doc_ingestor_index_chunk(1)
    \/ doc_ingestor_return(1)
    \/ query_processor_parse(1)
    \/ query_processor_embed_question(1)
    \/ query_processor_search(1)
    \/ query_processor_answer(1)

Spec == Init /\ [][Next]_vars

\* SpecRace: one invocation per slot, overlapping in any way.  The events are
\* the short ones (one document, a preflight, a request without body), so the
\* query handler never reaches the query pipeline.
RaceRecords == { << "c.txt" >>, << "a.txt" >> }
RaceQueries ==
    { [method |-> m, body |-> [tag |-> "none", question |-> [t |-> "absent", v |-> << >>]]] :
        m \in {"OPTIONS", "POST"} }

RaceIngestInvoke == \E s \in Slots : kind[s] = "idle" /\ doc_ingestor_start(s, RaceRecords)
RaceQueryInvoke == \E s \in Slots : kind[s] = "idle" /\ query_processor_start(s, RaceQueries)

NextRace ==
    \/ RaceIngestInvoke
    \/ RaceQueryInvoke
    \/ \E s \in Slots : ensure_index_exists_check(s)
    \/ \E s \in Slots : ensure_index_exists_create(s)
    \/ \E s \in Slots : doc_ingestor_get_object(s)
    \/ \E s \in Slots : doc_ingestor_embed_chunk(s)
    \/ \E s \in Slots : doc_ingestor_index_chunk(s)
    \/ \E s \in Slots : doc_ingestor_return(s)
    \/ \E s \in Slots : query_processor_parse(s)

InitRace == Init /\ ~preloaded

SpecRace == InitRace /\ [][NextRace]_vars

\* ------------------------------------------------------------------------
\* Specification of chunk_text alone: any text, any max_len > 0
\* ------------------------------------------------------------------------
Texts == UNION { [1..n -> Alphabet] : n \in 0..MaxTextLen }

InitChunk ==
    /\ in_text \in Texts
    /\ in_max_len \in 1..MaxWidth
    /\ out_chunks = << >> /\ called = FALSE
    /\ ParseIdle
    /\ preloaded = FALSE /\ idxExists = FALSE /\ index = << >> /\ faults = 0
    /\ started = 0 /\ acked = << >>
    /\ kind = [s \in Slots |-> "idle"]
    /\ pc = [s \in Slots |-> "idle"]
    /\ event = [s \in Slots |-> NoEvent]
    /\ loc = [s \in Slots |-> NoLoc]
    /\ calls = [s \in Slots |-> << >>]
    /\ result = [s \in Slots |-> NoResult]

chunk_text_call ==
    /\ ~called
    /\ out_chunks' = chunk_text(in_text, in_max_len)
    /\ called' = TRUE
    /\ UNCHANGED << in_text, in_max_len >>
    /\ UNCHANGED parseVars
    /\ UNCHANGED sysVars

NextChunk == chunk_text_call

SpecChunk == InitChunk /\ [][NextChunk]_vars


\* ------------------------------------------------------------------------
\* Specification of the two embed functions alone: any answer of the model
\* ------------------------------------------------------------------------
MaxVectors == 2
MaxOutputs == 2

ChunkIdle == in_text = << >> /\ in_max_len = 1 /\ out_chunks = << >> /\ called = FALSE
SysIdle ==
    /\ preloaded = FALSE /\ idxExists = FALSE /\ index = << >> /\ faults = 0
    /\ started = 0 /\ acked = << >>
    /\ kind = [s \in Slots |-> "idle"]
    /\ pc = [s \in Slots |-> "idle"]
    /\ event = [s \in Slots |-> NoEvent]
    /\ loc = [s \in Slots |-> NoLoc]
    /\ calls = [s \in Slots |-> << >>]
    /\ result = [s \in Slots |-> NoResult]

\* payloads json.loads can hand to embed: an object with or without
\* "embedding", with or without a list "outputs" of objects
EmbedVectors == { << v >> : v \in 1..MaxVectors }
OutputItems == { [embedding |-> v] : v \in EmbedVectors } \cup { [name |-> "text"] }
OutputLists == UNION { [1..n -> OutputItems] : n \in 0..MaxOutputs }
EmbedShapes ==
    { [embedding |-> v] : v \in EmbedVectors }
    \cup { [outputs |-> o] : o \in OutputLists }
    \cup { [embedding |-> v, outputs |-> o] : v \in EmbedVectors, o \in OutputLists }
    \cup { [message |-> "no embedding"] }
EmbedAnswers ==
    { [raises |-> FALSE, payload |-> p] : p \in EmbedShapes }
    \cup { [raises |-> TRUE, payload |-> [message |-> "ClientError"]] }

InitEmbed ==
    /\ in_embed \in EmbedAnswers
    /\ out_embed_ingest = NotCalled /\ out_embed_query = NotCalled
    /\ in_model_id = "" /\ in_gen = NoAnswer /\ out_answer = NotCalled
    /\ ChunkIdle
    /\ SysIdle

\* embed of the ingestion Lambda on the answer
doc_ingestor_embed_call ==
    /\ ~IsCalled(out_embed_ingest)
    /\ out_embed_ingest' = doc_ingestor_embed(in_embed)
    /\ UNCHANGED << in_embed, out_embed_query, in_model_id, in_gen, out_answer >>
    /\ UNCHANGED chunkVars
    /\ UNCHANGED sysVars

\* embed of the query Lambda on the answer
query_processor_embed_call ==
    /\ ~IsCalled(out_embed_query)
    /\ out_embed_query' = query_processor_embed(in_embed)
    /\ UNCHANGED << in_embed, out_embed_ingest, in_model_id, in_gen, out_answer >>
    /\ UNCHANGED chunkVars
    /\ UNCHANGED sysVars

NextEmbed ==
    \/ doc_ingestor_embed_call
    \/ query_processor_embed_call

SpecEmbed == InitEmbed /\ [][NextEmbed]_vars


\* ------------------------------------------------------------------------
\* Specification of answer_with_context alone: any configured model, any
\* answer of the model
\* ------------------------------------------------------------------------
MaxBlocks == 2

\* values of GEN_MODEL_ID / GEN_INFERENCE_PROFILE_ID: the default, and a
\* model of another family
GenModelIds == { GEN_MODEL_ID, "amazon.nova-lite-v1:0" }

\* payloads json.loads can hand to answer_with_context: "content" as a list
\* of blocks, "output" as a list of messages with such a "content", or neither
ContentBlocks ==
    { [type |-> "text", text |-> "answer"],
      [type |-> "text", text |-> "other"],
      [type |-> "text", text |-> ""],
      [type |-> "tool_use"] }
ContentLists == UNION { [1..n -> ContentBlocks] : n \in 0..MaxBlocks }
GenShapes ==
    { [content |-> c] : c \in ContentLists }
    \cup { [output |-> << [content |-> c] >>] : c \in ContentLists }
    \cup { [output |-> << >>], [message |-> "no content"] }
GenAnswers ==
    { [raises |-> FALSE, payload |-> p] : p \in GenShapes }
    \cup { [raises |-> TRUE, payload |-> [message |-> "ClientError"]] }

InitAnswer ==
    /\ in_model_id \in GenModelIds
    /\ in_gen \in GenAnswers
    /\ out_answer = NotCalled
    /\ in_embed = NoAnswer /\ out_embed_ingest = NotCalled /\ out_embed_query = NotCalled
    /\ ChunkIdle
    /\ SysIdle

answer_with_context_call ==
    /\ ~IsCalled(out_answer)
    /\ out_answer' = answer_with_context_of(in_model_id, in_gen)
    /\ UNCHANGED << in_model_id, in_gen, in_embed, out_embed_ingest, out_embed_query >>
    /\ UNCHANGED chunkVars
    /\ UNCHANGED sysVars

NextAnswer == answer_with_context_call

SpecAnswer == InitAnswer /\ [][NextAnswer]_vars


\* ------------------------------------------------------------------------
\* Properties
\* ------------------------------------------------------------------------
IsIndexCall(c) == c.op = "index"
IndexCalls(s) == SelectSeq(calls[s], IsIndexCall)
FailedChunkCall(c) == c.op \in {"embed", "index"} /\ ~c.ok
Ingesting(s) == kind[s] = "ingest"
Returned(s) == pc[s] = "done" /\ result[s].status = "returned"

\* C1: when embedding or indexing a chunk fails, the invocation makes no
\* further remote call, the failure leaves the ingestion handler, and every
\* entry the invocation wrote before is still in the index under its _id.
C1_FailFast ==
    \A s \in Slots : Ingesting(s) =>
      \A p \in 1..Len(calls[s]) : FailedChunkCall(calls[s][p]) =>
        /\ \A q \in (p + 1)..Len(calls[s]) : calls[s][q].op = "logger.error"
        /\ pc[s] = "done" /\ result[s].status = "raised"
        /\ \A q \in 1..(p - 1) :
             (calls[s][q].op = "index" /\ calls[s][q].ok) =>
               \E n \in 1..Len(index) :
                  /\ index[n]._id = calls[s][q].arg._id
                  /\ index[n]._source = calls[s][q].arg.body

\* C1 witness: a chunk call failed after an index write of the same
\* invocation, with a later record of the batch left unprocessed
C1_Witness ==
    \E s \in Slots :
      /\ Ingesting(s)
      /\ loc[s].rec_idx < Len(event[s].Records)
      /\ \E p \in 1..Len(calls[s]) :
           /\ FailedChunkCall(calls[s][p])
           /\ \E q \in 1..(p - 1) : calls[s][q].op = "index" /\ calls[s][q].ok

\* the index-write bodies a complete ingestion of key issues, without the vector
ExpectedBodies(key) ==
    LET cs == chunk_text(Store[key], DefaultMaxLen)
    IN [j \in 1..Len(cs) |->
          [doc_id |-> md5[key], chunk_id |-> j - 1, chunk_text |-> cs[j],
           source |-> "s3", s3_key |-> key]]
RECURSIVE ExpectedOfBatch(_)
ExpectedOfBatch(recs) ==
    IF recs = << >> THEN << >>
    ELSE ExpectedBodies(Head(recs)) \o ExpectedOfBatch(Tail(recs))

\* C2: an ingestion in which every call succeeds issues, per document of N
\* chunks, exactly N index writes in chunk order with chunk_id 0..N-1, the
\* doc_id of the key and the metadata of the document.
C2_IndexWrites ==
    \A s \in Slots : (Ingesting(s) /\ Returned(s)) =>
      LET exp == ExpectedOfBatch(event[s].Records)
          got == IndexCalls(s)
      IN /\ Len(got) = Len(exp)
         /\ \A j \in 1..Len(got) :
              /\ got[j].ok
              /\ got[j].arg.body.doc_id = exp[j].doc_id
              /\ got[j].arg.body.chunk_id = exp[j].chunk_id
              /\ got[j].arg.body.chunk_text = exp[j].chunk_text
              /\ got[j].arg.body.source = exp[j].source
              /\ got[j].arg.body.s3_key = exp[j].s3_key

\* C2 witness: a batch whose document has two chunks was ingested completely
C2_Witness ==
    \E s \in Slots :
      /\ Ingesting(s) /\ Returned(s)
      /\ \E r \in 1..Len(event[s].Records) :
           Len(chunk_text(Store[event[s].Records[r]], DefaultMaxLen)) >= 2
      /\ Len(IndexCalls(s)) >= 2

Initial == IF preloaded THEN IndexOf(Preloaded) ELSE << >>
CountDoc(idx, d) == Cardinality({ n \in 1..Len(idx) : idx[n]._source.doc_id = d })
CountAcked(d, c) ==
    Cardinality({ m \in 1..Len(acked) :
                    acked[m].body.doc_id = d /\ acked[m].body.chunk_id = c })
NumChunks(key) == Len(chunk_text(Store[key], DefaultMaxLen))
\* ingestions of key that wrote their first chunk, and that wrote their last
PassesBegun(key) == CountAcked(md5[key], 0)
PassesDone(key) == CountAcked(md5[key], NumChunks(key) - 1)

\* C7: the index only grows: it is its first content followed by one entry
\* per acknowledged write, no write names an _id, and two complete ingestions
\* of a document of N chunks leave 2N entries of its doc_id.
C7_AppendOnly ==
    /\ Len(index) = Len(Initial) + Len(acked)
    /\ \A n \in 1..Len(Initial) : index[n] = Initial[n]
    /\ \A m \in 1..Len(acked) :
         /\ acked[m].id = << >>
         /\ index[Len(Initial) + m]._source = acked[m].body
    /\ \A k \in Keys :
         (NumChunks(k) > 0 /\ PassesBegun(k) = 2 /\ PassesDone(k) = 2) =>
            CountDoc(index, md5[k]) = CountDoc(Initial, md5[k]) + 2 * NumChunks(k)

\* C7 witness: a document of two chunks ingested twice into an empty index
C7_Witness ==
    /\ ~preloaded
    /\ PassesBegun("a.txt") = 2 /\ PassesDone("a.txt") = 2
    /\ NumChunks("a.txt") >= 2
    /\ CountDoc(index, md5["a.txt"]) = 2 * NumChunks("a.txt")


Querying(s) == kind[s] = "query"
Finished(s) == pc[s] = "done"
\* the method is OPTIONS, in any case of the letters
IsPreflight(s) == event[s].method \in {"OPTIONS", "options"}
PipelineOps == {"embed", "search", "generate"}
IndexOps == {"indices.exists", "indices.create", "index", "search"}
MadeCall(s, ops) == \E p \in 1..Len(calls[s]) : calls[s][p].op \in ops
\* a step of the query raised: the body did not parse, or a call failed
StepRaised(s) ==
    \/ ~parse_question(event[s].body).ok
    \/ \E p \in 1..Len(calls[s]) : calls[s][p].op \in PipelineOps /\ ~calls[s][p].ok

\* C3: a query that is no preflight, with the debug flag not enabled, in which
\* a step raised, does not raise: it returns status 500 with the body
\* {"error": "internal_error"} and nothing more.
C3_InternalError ==
    \A s \in Slots : (Querying(s) /\ Finished(s)) =>
      /\ result[s].status = "returned"
      /\ (StepRaised(s) /\ ~IsPreflight(s) /\ ~DebugEnabled(result[s].debug)) =>
           /\ result[s].value.statusCode = 500
           /\ result[s].value.body = json_dumps([error |-> "internal_error"])

\* C3 witness: the embedding call of a query failed with the flag at "false"
C3_Witness ==
    \E s \in Slots :
      /\ Querying(s) /\ Finished(s) /\ ~IsPreflight(s)
      /\ result[s].debug = "false"
      /\ \E p \in 1..Len(calls[s]) : calls[s][p].op = "embed" /\ ~calls[s][p].ok
      /\ result[s].value.statusCode = 500

\* the question is empty or missing: no body, an empty body, a JSON object
\* without "question", or a question that is empty or whitespace only
OnlyWhitespace(t) == \A i \in 1..Len(t) : t[i] \in {" ", "\n"}
QuestionMissing(b) ==
    \/ b.tag \in {"none", "empty"}
    \/ b.tag = "object" /\ b.question.t = "absent"
    \/ b.tag = "object" /\ b.question.t = "str" /\ OnlyWhitespace(b.question.v)
Rejected400(s) ==
    /\ result[s].status = "returned"
    /\ result[s].value.statusCode = 400
    /\ result[s].value.body = json_dumps([error |-> "question required"])
    /\ ~MadeCall(s, PipelineOps)

\* C4 as stated: every query whose question is empty or missing returns 400
\* {"error": "question required"} and makes no embedding, search or
\* generation call.
C4_Original ==
    \A s \in Slots : (Querying(s) /\ Finished(s) /\ QuestionMissing(event[s].body)) =>
      Rejected400(s)

\* C4 amended: every query that is no preflight and whose question is empty
\* or missing returns 400 {"error": "question required"} and makes no
\* embedding, search or generation call.
C4_Amended ==
    \A s \in Slots :
      (Querying(s) /\ Finished(s) /\ ~IsPreflight(s) /\ QuestionMissing(event[s].body)) =>
        Rejected400(s)

\* C4 witness: a POST whose question is whitespace only was rejected with 400
C4_Witness ==
    \E s \in Slots :
      /\ Querying(s) /\ Finished(s) /\ event[s].method = "POST"
      /\ event[s].body.tag = "object" /\ event[s].body.question.t = "str"
      /\ event[s].body.question.v = << " " >>
      /\ Rejected400(s)

Answered204(s) ==
    /\ result[s].status = "returned"
    /\ result[s].value.statusCode = 204
    /\ result[s].value.headers = CORS_HEADERS

\* C5 as stated: a preflight returns 204 with the CORS headers and makes no
\* embedding call, no index call and no generation call.
C5_Original ==
    \A s \in Slots : (Querying(s) /\ Finished(s) /\ IsPreflight(s)) =>
      /\ Answered204(s)
      /\ ~MadeCall(s, PipelineOps \cup IndexOps)

\* C5 amended: a preflight returns 204 with the CORS headers and makes no
\* embedding, search, index-write or generation call; its only remote calls
\* are those of ensure_index_exists, which runs before the method is looked
\* at: the existence check, and the create when the index is absent.
C5_Amended ==
    \A s \in Slots : (Querying(s) /\ Finished(s) /\ IsPreflight(s)) =>
      /\ Answered204(s)
      /\ ~MadeCall(s, PipelineOps \cup {"index"})
      /\ calls[s] # << >> /\ calls[s][1].op = "indices.exists"
      /\ \A p \in 1..Len(calls[s]) :
           calls[s][p].op \in {"indices.exists", "indices.create", "logger.error"}

\* C5 witness: a preflight sent as "options" was answered 204 after the
\* existence check and the create of ensure_index_exists
C5_Witness ==
    \E s \in Slots :
      /\ Querying(s) /\ Finished(s) /\ event[s].method = "options"
      /\ Answered204(s)
      /\ MadeCall(s, {"indices.create"})

IsSearchCall(c) == c.op = "search" /\ c.ok
IsGenerateCall(c) == c.op = "generate"
\* C10: the snippets are the hits of the search, one per hit and in their
\* order (score descending), at most k = 5 and at most as many as the index
\* holds; with zero hits the answerer is still called, with empty contexts,
\* and its answer is returned with status 200 and no sources.
C10_Snippets ==
    \A s \in Slots : Querying(s) =>
      \A p \in 1..Len(calls[s]) : IsSearchCall(calls[s][p]) =>
        LET hits == calls[s][p].arg
            ctx == loc[s].contexts
            gen == SelectSeq(calls[s], IsGenerateCall)
        IN /\ Len(ctx) = Len(hits)
           /\ Len(ctx) <= SearchK /\ Len(ctx) <= Len(index)
           /\ \A j \in 1..Len(ctx) :
                /\ ctx[j].text = hits[j]._source.chunk_text
                /\ ctx[j].source = hits[j]._source.s3_key
                /\ ctx[j].score = hits[j]._score
           /\ \A j \in 1..(Len(ctx) - 1) : ctx[j].score >= ctx[j + 1].score
           /\ Finished(s) =>
                /\ Len(gen) = 1 /\ gen[1].arg = ctx
                /\ gen[1].ok =>
                     /\ result[s].value.statusCode = 200
                     /\ Len(result[s].value.body.json.sources) = Len(hits)
                     /\ \A j \in 1..Len(hits) :
                          /\ result[s].value.body.json.sources[j].snippet_index = j
                          /\ result[s].value.body.json.sources[j].text
                               = hits[j]._source.chunk_text
                          /\ result[s].value.body.json.sources[j].score = hits[j]._score

\* C10 witness: a query over an index of more than five entries returned 200
\* with five sources
C10_Witness ==
    \E s \in Slots :
      /\ Querying(s) /\ Finished(s)
      /\ Len(index) > SearchK
      /\ result[s].value.statusCode = 200
      /\ Len(result[s].value.body.json.sources) = SearchK


EnsureOps == {"indices.exists", "indices.create"}
EnsureLogged(c) == c.op = "logger.error" /\ c.arg = "Error ensuring index exists"
InEnsure(s) == pc[s] \in {"ensure_exists", "ensure_create"}
\* the invocation ended in a failure: the ingestion handler raised, or the
\* query handler answered 500
EndedInFailure(s) ==
    /\ Finished(s)
    /\ \/ result[s].status = "raised"
       \/ Querying(s) /\ result[s].value.statusCode = 500
\* a step after ensure_index_exists() failed
LaterStepFailed(s) ==
    \/ Querying(s) /\ StepRaised(s)
    \/ \E p \in 1..Len(calls[s]) :
          calls[s][p].op \in {"s3.get_object", "embed", "index"} /\ ~calls[s][p].ok

\* C6: under every interleaving of invocations, ensure_index_exists issues
\* create only right after its own existence check answered "absent"; a
\* failure of the check or of the create (the index was created by another
\* invocation meanwhile) is logged and the handler goes on behind
\* ensure_index_exists(); no invocation ends in a failure unless a later step
\* failed.
C6_EnsureNeverRaises ==
    \A s \in Slots :
      /\ \A p \in 1..Len(calls[s]) :
           /\ calls[s][p].op = "indices.create" =>
                /\ p > 1
                /\ calls[s][p - 1].op = "indices.exists"
                /\ calls[s][p - 1].ok /\ calls[s][p - 1].arg = FALSE
           /\ (calls[s][p].op \in EnsureOps /\ ~calls[s][p].ok) =>
                /\ p < Len(calls[s])
                /\ EnsureLogged(calls[s][p + 1])
                /\ ~InEnsure(s)
      /\ EndedInFailure(s) => LaterStepFailed(s)

\* C6 witness: two invocations both saw the index absent and both issued
\* create; the create of one failed, and both handlers went on
C6_Witness ==
    \E s, o \in Slots :
      /\ s # o
      /\ \E p \in 1..Len(calls[s]) : calls[s][p].op = "indices.create" /\ calls[s][p].ok
      /\ \E p \in 1..Len(calls[o]) : calls[o][p].op = "indices.create" /\ ~calls[o][p].ok
      /\ faults = 0
      /\ Finished(s) /\ Finished(o)
      /\ result[s].status = "returned" /\ result[o].status = "returned"


\* the maximal runs of whitespace and of other characters of a text
RECURSIVE RunsFrom(_, _, _)
RunsFrom(t, i, cur) ==
    IF i > Len(t) THEN (IF cur = << >> THEN << >> ELSE << cur >>)
    ELSE IF cur # << >> /\ ((t[i] \in {" ", "\n"}) # (cur[1] \in {" ", "\n"}))
    THEN << cur >> \o RunsFrom(t, i + 1, << t[i] >>)
    ELSE RunsFrom(t, i + 1, Append(cur, t[i]))
Runs(t) == RunsFrom(t, 1, << >>)
IsWord(r) == r[1] \notin {" ", "\n"}
\* the whitespace-separated words of a text
Words(t) == SelectSeq(Runs(t), IsWord)
\* the runs from the first word on: word, gap, word, gap, ...
RunsFromFirstWord(t) ==
    LET r == Runs(t) IN IF r # << >> /\ ~IsWord(r[1]) THEN Tail(r) ELSE r
RECURSIVE WordsOfChunks(_)
WordsOfChunks(cs) == IF cs = << >> THEN << >> ELSE Words(Head(cs)) \o WordsOfChunks(Tail(cs))
RECURSIVE JoinSpace(_)
JoinSpace(ws) ==
    IF ws = << >> THEN << >>
    ELSE IF Len(ws) = 1 THEN ws[1]
    ELSE ws[1] \o << " " >> \o JoinSpace(Tail(ws))
NoHyphen(t) == \A i \in 1..Len(t) : t[i] # "-"
WordsFit(t, width) == \A j \in 1..Len(Words(t)) : Len(Words(t)[j]) <= width
ChunksBounded == \A j \in 1..Len(out_chunks) : Len(out_chunks[j]) <= in_max_len
\* a chunk ends where the next word, with the whitespace before it, passes max_len
Greedy ==
    \A j \in 1..(Len(out_chunks) - 1) :
      LET e == Len(WordsOfChunks(SubSeq(out_chunks, 1, j)))
          r == RunsFromFirstWord(in_text)
      IN Len(out_chunks[j]) + Len(r[2 * e]) + Len(r[2 * e + 1]) > in_max_len

C9_Original == called => ((out_chunks = << >>) <=> (in_text = << >>))

\* C9 amended: chunk_text returns zero chunks exactly when the text holds no
\* character other than whitespace: it is empty or made of whitespace only.
C9_Amended == called => ((out_chunks = << >>) <=> OnlyWhitespace(in_text))

\* C9 witness: a text made of whitespace only gave zero chunks
C9_Witness == called /\ in_text # << >> /\ OnlyWhitespace(in_text) /\ out_chunks = << >>


\* the payload carries the vector directly, or in an item of "outputs"
HasDirect(p) == "embedding" \in DOMAIN p
NestedAt(p) ==
    IF "outputs" \in DOMAIN p
    THEN { j \in 1..Len(p.outputs) : "embedding" \in DOMAIN p.outputs[j] }
    ELSE {}
HasNested(p) == NestedAt(p) # {}
FirstNested(p) == CHOOSE j \in NestedAt(p) : \A m \in NestedAt(p) : j <= m
\* the vector of the payload: the direct field first, then the first item
\* of "outputs" that carries one
ExpectedVector(p) ==
    IF HasDirect(p) THEN p.embedding ELSE p.outputs[FirstNested(p)].embedding
BothEmbedded == IsCalled(out_embed_ingest) /\ IsCalled(out_embed_query)

\* C11: for every payload of the embedding model, the ingestion path and the
\* query path parse it alike: a payload that carries the vector directly
\* under "embedding" or nested in "outputs" gives, on both paths, that
\* vector (the direct field first, then the first output item with an
\* embedding), and a payload of neither shape fails on both paths.
C11_Original ==
    (BothEmbedded /\ ~in_embed.raises) =>
        LET p == in_embed.payload
        IN IF HasDirect(p) \/ HasNested(p)
           THEN /\ out_embed_ingest.ok /\ out_embed_ingest.value = ExpectedVector(p)
                /\ out_embed_query.ok /\ out_embed_query.value = ExpectedVector(p)
           ELSE ~out_embed_ingest.ok /\ ~out_embed_query.ok


\* the content blocks of the payload, where the model family puts them
AnswerBlocks(model_id, p) ==
    IF IsAnthropic(model_id)
    THEN IF "content" \in DOMAIN p THEN p.content ELSE << >>
    ELSE IF "output" \in DOMAIN p /\ p.output # << >> THEN p.output[1].content ELSE << >>
TextAt(blocks) == { j \in 1..Len(blocks) : "text" \in DOMAIN blocks[j] }
FirstText(blocks) ==
    blocks[CHOOSE j \in TextAt(blocks) : \A m \in TextAt(blocks) : j <= m].text
Answered == IsCalled(out_answer) /\ ~in_gen.raises

\* C12: answer_with_context returns the first textual content of the
\* response (of a list of content blocks, the text of the first block that
\* has a text field, wherever it stands), raises the "unexpected response
\* format" failure when the response holds no text, and never returns an
\* empty string.
C12_Original ==
    Answered =>
        LET blocks == AnswerBlocks(in_model_id, in_gen.payload)
        IN /\ out_answer.ok => out_answer.value # ""
           /\ IF TextAt(blocks) = {}
              THEN ~out_answer.ok /\ out_answer.value = "ValueError"
              ELSE FirstText(blocks) # "" =>
                       out_answer.ok /\ out_answer.value = FirstText(blocks)


====
